---- MODULE Spec2Model ----
(***************************************************************************)
(* A model of purejaxrl/ppo_continuous_action.py: the PPO training driver  *)
(* (make_train / train / _update_step), its rollout collector (_env_step), *)
(* the GAE backward recursion (_calculate_gae), the minibatch scheduler    *)
(* (_update_epoch) and the update engine (_update_minbatch).               *)
(*                                                                         *)
(* Numbers are exact rationals [n, d] (d > 0, lowest terms).  The inputs   *)
(* the model draws are small integers and halves, which binary floating    *)
(* point represents exactly, so the model and the program compute the same *)
(* values on them.                                                         *)
(***************************************************************************)
EXTENDS Integers, Sequences, FiniteSets, TLC

VARIABLES
    config,        \* the config dict, with the derived NUM_UPDATES and MINIBATCH_SIZE
    pc,            \* position of the program
    train_state,   \* TrainState: params, step, the optimizer's schedule count
    env_state,     \* the environment's state (owned by the environment)
    last_obs,      \* runner_state[2]: the observation the policy acts on next
    rng,           \* the PRNG key carried in runner_state / update_state
    traj_batch,    \* the transitions of the current rollout, time-major
    last_val,      \* the bootstrap value
    advantages,    \* [t][env] advantages of the current update step
    targets,       \* [t][env] value targets of the current update step
    permutation,   \* the permutation drawn by the current epoch
    minibatches,   \* the shuffled batch split into NUM_MINIBATCHES slices
    update_i,      \* index of the running update step (outer scan)
    epoch_i,       \* index of the running epoch (scan of _update_epoch)
    mb_i,          \* index of the next minibatch (scan of _update_minbatch)
    total_loss,    \* outputs of the minibatch scan of the running epoch
    loss_info,     \* outputs of the epoch scan of the running update step
    metric,        \* outputs of the outer scan: one metric per update step
    key_log,       \* observation: every use (split or consume) of a PRNG key
    phase_log,     \* observation: the operations of the running update step
    env_ret,       \* observation: what the environment returned last
    acted,         \* observation: the train_state that acted in each step of the rollout
    lr_used,       \* observation: the learning rate of the last optimizer step
    pass_out       \* observation: what the last _update_minbatch pass evaluated

vars == <<config, pc, train_state, env_state, last_obs, rng, traj_batch, last_val,
          advantages, targets, permutation, minibatches, update_i, epoch_i, mb_i,
          total_loss, loss_info, metric, key_log, phase_log, env_ret, acted,
          lr_used, pass_out>>

\* The variables of the training driver that the pure-function specifications
\* (of _calculate_gae and of _update_epoch's shuffle) leave alone.
driver_vars == <<train_state, env_state, last_obs, rng, update_i, epoch_i, mb_i,
                 total_loss, loss_info, metric, key_log, phase_log, env_ret, acted,
                 lr_used, pass_out>>

(***************************************************************************)
(* Exact arithmetic.                                                       *)
(***************************************************************************)
\* The operations are functions so that an operand is evaluated once.
Abs(x) == IF x < 0 THEN -x ELSE x

Gcd[a \in Nat, b \in Nat] == IF b = 0 THEN a ELSE Gcd[b, a % b]

\* The number n/d (d > 0) in lowest terms.
RatOf[n \in Int, d \in Nat] ==
    [n |-> n \div Gcd[Abs(n), d], d |-> d \div Gcd[Abs(n), d]]

Rat(n, d) == RatOf[n, d]

Rationals == [n : Int, d : Nat]

RAddOf[a \in Rationals, b \in Rationals] ==
    RatOf[a.n * b.d + b.n * a.d, a.d * b.d]

RSubOf[a \in Rationals, b \in Rationals] ==
    RatOf[a.n * b.d - b.n * a.d, a.d * b.d]

RMulOf[a \in Rationals, b \in Rationals] == RatOf[a.n * b.n, a.d * b.d]

RI(i) == [n |-> i, d |-> 1]
RAdd(a, b) == RAddOf[a, b]
RSub(a, b) == RSubOf[a, b]
RMul(a, b) == RMulOf[a, b]
RNeg(a) == [n |-> -a.n, d |-> a.d]
RLe(a, b) == a.n * b.d <= b.n * a.d
RLt(a, b) == a.n * b.d < b.n * a.d

RECURSIVE SumSeq(_)
SumSeq(s) == IF s = <<>> THEN RI(0) ELSE RAdd(s[1], SumSeq(Tail(s)))

(***************************************************************************)
(* Bounds of the model.                                                    *)
(***************************************************************************)
MaxNumSteps == 2
MaxNumEnvs == 2
MaxBatch == 4
MaxGaeSteps == 3
MaxGaeCells == 3
MaxMinibatches == 2
MaxEpochs == 2
MaxUpdates == 2
MaxOptSteps == 4
MaxFairBatch == 2

\* (NUM_STEPS, NUM_ENVS) shapes of a rollout of at most maxCells samples.
Shapes(maxSteps, maxCells) ==
    { s \in (1..maxSteps) \X (1..MaxNumEnvs) : s[1] * s[2] <= maxCells }

Vec(n, S) == [1..n -> S]

Gammas == { Rat(1, 2), RI(1) }
Lambdas == { Rat(1, 2), RI(1) }
Dones == {0, 1}
Rewards == {0, 1}
Values == {0, 1}

(***************************************************************************)
(* Transition: one step of all environments (struct of per-env vectors).   *)
(***************************************************************************)

\* Transition with the value and the log-probability stored in each other's field.
Mut_Transition_value_log_prob_swapped(done, action, value, reward, log_prob, obs, info) ==
    [done |-> done, action |-> action, value |-> log_prob, reward |-> reward,
     log_prob |-> value, obs |-> obs, info |-> info]

Transition(done, action, value, reward, log_prob, obs, info) ==
    [done |-> done, action |-> action, value |-> value, reward |-> reward,
     log_prob |-> log_prob, obs |-> obs, info |-> info]

(***************************************************************************)
(* _calculate_gae: the backward scan of _get_advantages.                   *)
(***************************************************************************)

\* _get_advantages without the (1 - done) mask on the next value.
Mut_get_advantages_no_mask(gae_and_next_value, transition, cfg) ==
    LET gae == gae_and_next_value[1]
        next_value == gae_and_next_value[2]
        delta == RSub(RAdd(RI(transition.reward),
                           RMul(cfg.GAMMA, next_value)),
                      RI(transition.value))
        new_gae == RAdd(delta,
                        RMul(RMul(RMul(cfg.GAMMA, cfg.GAE_LAMBDA),
                                  RI(1 - transition.done)),
                             gae))
    IN  << <<new_gae, RI(transition.value)>>, new_gae >>

\* One step of the scan for one environment (the program applies it to the
\* vectors of all environments elementwise).  The carry is (gae, next_value);
\* the result is <<new carry, output>>.
_get_advantages(gae_and_next_value, transition, cfg) ==
    LET gae == gae_and_next_value[1]
        next_value == gae_and_next_value[2]
        delta == RSub(RAdd(RI(transition.reward),
                           RMul(RMul(cfg.GAMMA, next_value),
                                RI(1 - transition.done))),
                      RI(transition.value))
        new_gae == RAdd(delta,
                        RMul(RMul(RMul(cfg.GAMMA, cfg.GAE_LAMBDA),
                                  RI(1 - transition.done)),
                             gae))
    IN  << <<new_gae, RI(transition.value)>>, new_gae >>

\* The fields _get_advantages reads of environment i's transition at step t.
EnvTransition(traj, t, i) ==
    [done |-> traj[t].done[i], value |-> traj[t].value[i],
     reward |-> traj[t].reward[i]]

\* jax.lax.scan(_get_advantages, init, traj_batch, reverse=True) for
\* environment i: steps t, t-1, ..., 1 from the carry; the outputs keep the
\* order of traj_batch.
RECURSIVE scan_get_advantages(_, _, _, _, _)
scan_get_advantages(carry, traj, t, i, cfg) ==
    IF t = 0 THEN <<>>
    ELSE LET r == _get_advantages(carry, EnvTransition(traj, t, i), cfg)
         IN  scan_get_advantages(r[1], traj, t - 1, i, cfg) \o <<r[2]>>

\* The scan's outputs of environments 1..i, one sequence per environment.
RECURSIVE scan_all_envs(_, _, _, _)
scan_all_envs(traj, lastval, i, cfg) ==
    IF i = 0 THEN <<>>
    ELSE scan_all_envs(traj, lastval, i - 1, cfg)
         \o << scan_get_advantages(<<RI(0), RI(lastval[i])>>, traj, Len(traj), i, cfg) >>

\* _calculate_gae returning the advantages as the targets, without + value.
Mut_calculate_gae_targets(traj, lastval, cfg) ==
    LET n == Len(lastval)
        by_env == scan_all_envs(traj, lastval, n, cfg)
    IN  << [t \in 1..Len(traj) |-> [i \in 1..n |-> by_env[i][t]]],
           [t \in 1..Len(traj) |-> [i \in 1..n |-> by_env[i][t]]] >>

\* Returns <<advantages, targets>>, each indexed [t][env].
_calculate_gae(traj, lastval, cfg) ==
    LET n == Len(lastval)
        by_env == scan_all_envs(traj, lastval, n, cfg)
    IN  << [t \in 1..Len(traj) |-> [i \in 1..n |-> by_env[i][t]]],
           [t \in 1..Len(traj) |->
              [i \in 1..n |-> RAdd(by_env[i][t], RI(traj[t].value[i]))]] >>

(***************************************************************************)
(* Specification of _calculate_gae as a function: the inputs are drawn     *)
(* from bounded sets, GaeCall applies it, and GaeRecall applies it again   *)
(* to an input that differs in one transition or in the bootstrap value.   *)
(***************************************************************************)
Idle == <<>>

GaeCell(n) ==
    { Transition(d, [i \in 1..n |-> 0], v, r, [i \in 1..n |-> 0],
                 [i \in 1..n |-> 0], [i \in 1..n |-> 0]) :
        d \in Vec(n, Dones), v \in Vec(n, Values), r \in Vec(n, Rewards) }

DriverIdle ==
    /\ train_state = Idle /\ env_state = Idle /\ last_obs = Idle /\ rng = Idle
    /\ update_i = 0 /\ epoch_i = 0 /\ mb_i = 0
    /\ total_loss = <<>> /\ loss_info = <<>> /\ metric = <<>>
    /\ key_log = <<>> /\ phase_log = <<>> /\ env_ret = Idle /\ acted = <<>>
    /\ lr_used = Idle /\ pass_out = Idle

GaeInit ==
    /\ \E g \in Gammas, l \in Lambdas : config = [GAMMA |-> g, GAE_LAMBDA |-> l]
    /\ \E s \in Shapes(MaxGaeSteps, MaxGaeCells) :
          /\ traj_batch \in [1..s[1] -> GaeCell(s[2])]
          /\ last_val \in Vec(s[2], Values)
    /\ pc = "gae_input"
    /\ advantages = <<>> /\ targets = <<>>
    /\ permutation = <<>> /\ minibatches = <<>>
    /\ DriverIdle

GaeCall ==
    /\ pc = "gae_input"
    /\ LET r == _calculate_gae(traj_batch, last_val, config)
       IN  advantages' = r[1] /\ targets' = r[2]
    /\ pc' = "gae_output"
    /\ UNCHANGED <<config, traj_batch, last_val, permutation, minibatches>>
    /\ UNCHANGED driver_vars

\* The function applied to an input that differs from the last one in one
\* field of one transition, or in the bootstrap value of one environment.
GaeRecall ==
    /\ pc = "gae_output"
    /\ \/ \E t \in 1..Len(traj_batch), i \in 1..Len(last_val) :
            /\ \/ traj_batch' = [traj_batch EXCEPT ![t].done[i] = 1 - @]
               \/ traj_batch' = [traj_batch EXCEPT ![t].reward[i] = 1 - @]
               \/ traj_batch' = [traj_batch EXCEPT ![t].value[i] = 1 - @]
            /\ last_val' = last_val
       \/ \E i \in 1..Len(last_val) :
            /\ last_val' = [last_val EXCEPT ![i] = 1 - @]
            /\ traj_batch' = traj_batch
    /\ LET r == _calculate_gae(traj_batch', last_val', config)
       IN  advantages' = r[1] /\ targets' = r[2]
    /\ UNCHANGED <<config, pc, permutation, minibatches>>
    /\ UNCHANGED driver_vars

GaeNext == GaeCall \/ GaeRecall

SpecGae == GaeInit /\ [][GaeNext]_vars

GaeSteps == 1..Len(traj_batch)
GaeEnvs == 1..Len(last_val)

\* V_{t+1} of environment i: the next step's recorded value, or the bootstrap
\* value when t is the last step.
NextValue(t, i) ==
    IF t = Len(traj_batch) THEN last_val[i] ELSE traj_batch[t + 1].value[i]

DoneCutsState ==
    pc = "gae_output" =>
        \A t \in GaeSteps, i \in GaeEnvs :
            traj_batch[t].done[i] = 1 =>
                /\ advantages[t][i]
                     = RI(traj_batch[t].reward[i] - traj_batch[t].value[i])
                /\ targets[t][i] = RI(traj_batch[t].reward[i])

DoneCutsStep ==
    (pc = "gae_output" /\ pc' = "gae_output") =>
        \A t \in GaeSteps, i \in GaeEnvs :
            ( /\ traj_batch[t].done[i] = 1
              /\ \A s \in 1..t : traj_batch'[s] = traj_batch[s] )
            => /\ advantages'[t][i] = advantages[t][i]
               /\ targets'[t][i] = targets[t][i]

\* C1: at a step with done = 1 the advantage is reward - value and the target is
\* the reward, so neither the next value (or the bootstrap value) nor the later
\* gae contributes; and applying _calculate_gae to an input that differs only
\* after that step (a later transition, or the bootstrap value) returns the same
\* advantage and target at that step.
C1_DoneCutsLeak == []DoneCutsState /\ [][DoneCutsStep]_vars

\* C1 witness: an episode ends at a step that is followed by a reward-1 step,
\* with a bootstrap value of 1 and GAMMA = GAE_LAMBDA = 1, and the advantages
\* have been computed.
C1_Witness ==
    /\ pc = "gae_output"
    /\ config.GAMMA = RI(1) /\ config.GAE_LAMBDA = RI(1)
    /\ \E t \in GaeSteps, i \in GaeEnvs :
          /\ t < Len(traj_batch)
          /\ traj_batch[t].done[i] = 1
          /\ traj_batch[t + 1].done[i] = 0
          /\ traj_batch[t + 1].reward[i] = 1
          /\ last_val[i] = 1
          /\ advantages[t + 1][i] # RI(0)

ZeroRewardsNoDones ==
    \A t \in GaeSteps, i \in GaeEnvs :
        traj_batch[t].reward[i] = 0 /\ traj_batch[t].done[i] = 0

ZeroAdvantages ==
    \A t \in GaeSteps, i \in GaeEnvs :
        /\ advantages[t][i] = RI(0)
        /\ targets[t][i] = RI(traj_batch[t].value[i])

\* Every recorded value equals the discounted next value.
DiscountConsistentValues ==
    \A t \in GaeSteps, i \in GaeEnvs :
        RI(traj_batch[t].value[i]) = RMul(config.GAMMA, RI(NextValue(t, i)))

\* C6 as stated: with all rewards and done flags zero, whatever the values, the
\* bootstrap value, GAMMA and GAE_LAMBDA, the advantages are zero and the targets
\* are the recorded values.
C6_AsStated ==
    (pc = "gae_output" /\ ZeroRewardsNoDones) => ZeroAdvantages

\* C6 amended: with all rewards and done flags zero, the advantages are all zero
\* and the targets equal the recorded values exactly when every recorded value
\* equals GAMMA times the next value (the bootstrap value after the last step),
\* as when the values and the bootstrap value are all zero.
C6_ZeroRewardGae ==
    (pc = "gae_output" /\ ZeroRewardsNoDones)
        => (ZeroAdvantages <=> DiscountConsistentValues)

\* C6 witness: zero rewards, no done, two or more steps of value 1 with a
\* bootstrap value of 1 and GAMMA = 1: consistent values that are not zero.
C6_Witness ==
    /\ pc = "gae_output"
    /\ ZeroRewardsNoDones
    /\ DiscountConsistentValues
    /\ Len(traj_batch) >= 2
    /\ \A t \in GaeSteps, i \in GaeEnvs : traj_batch[t].value[i] = 1
    /\ ZeroAdvantages

(***************************************************************************)
(* _update_epoch: the minibatch scheduler.                                 *)
(***************************************************************************)
\* make_train's derived MINIBATCH_SIZE.
minibatch_size(num_envs, num_steps, num_minibatches) ==
    (num_envs * num_steps) \div num_minibatches

\* The batch (traj_batch, advantages, targets) as a tree of [t][env] arrays,
\* one leaf per field of Transition plus the two arrays.
BatchTree(traj, adv, tgt) ==
    [done |-> [t \in 1..Len(traj) |-> traj[t].done],
     action |-> [t \in 1..Len(traj) |-> traj[t].action],
     value |-> [t \in 1..Len(traj) |-> traj[t].value],
     reward |-> [t \in 1..Len(traj) |-> traj[t].reward],
     log_prob |-> [t \in 1..Len(traj) |-> traj[t].log_prob],
     obs |-> [t \in 1..Len(traj) |-> traj[t].obs],
     info |-> [t \in 1..Len(traj) |-> traj[t].info],
     advantages |-> adv,
     targets |-> tgt]

\* x.reshape((batch_size,) + x.shape[2:]) of a [t][env] array: row-major.
reshape_batch(x, batch_size) ==
    LET n == Len(x[1])
    IN  [k \in 1..batch_size |-> x[((k - 1) \div n) + 1][((k - 1) % n) + 1]]

\* jnp.take(x, permutation, axis=0); the permutation holds 0-based indices.
take(x, perm) == [j \in 1..Len(perm) |-> x[perm[j] + 1]]

\* jnp.reshape(x, [NUM_MINIBATCHES, -1]) of a flat array.
reshape_minibatches(x, num_minibatches) ==
    LET size == Len(x) \div num_minibatches
    IN  [m \in 1..num_minibatches |->
           [j \in 1..size |-> x[(m - 1) * size + j]]]

\* Index draws with replacement, where an ordering is meant.
Mut_random_permutation_with_replacement(n) == [1..n -> 0..(n - 1)]

\* The values jax.random.permutation(key, n) can return: the orderings of 0..n-1.
random_permutation(n) ==
    { p \in [1..n -> 0..(n - 1)] : \A a, b \in 1..n : p[a] = p[b] => a = b }

\* The assertion of _update_epoch.
batch_size_ok(cfg) ==
    cfg.MINIBATCH_SIZE * cfg.NUM_MINIBATCHES = cfg.NUM_STEPS * cfg.NUM_ENVS

\* Lines 302-314: flatten, reorder by the permutation, split; tree_map applies
\* each step to every leaf of the batch.
shuffle_minibatches(traj, adv, tgt, perm, cfg) ==
    LET batch_size == cfg.MINIBATCH_SIZE * cfg.NUM_MINIBATCHES
        tree == BatchTree(traj, adv, tgt)
        batch == [k \in DOMAIN tree |-> reshape_batch(tree[k], batch_size)]
        shuffled_batch == [k \in DOMAIN batch |-> take(batch[k], perm)]
    IN  [k \in DOMAIN shuffled_batch |->
           reshape_minibatches(shuffled_batch[k], cfg.NUM_MINIBATCHES)]

(***************************************************************************)
(* Specification of the scheduler as a function of the batch: the batch    *)
(* and the configuration are drawn from bounded sets, EpochShuffle is one  *)
(* call of lines 297-314 on it.                                            *)
(***************************************************************************)
AdvValues == { RI(0), RI(1) }
ObsBits == {0, 1}

EpochCell(n) ==
    { Transition([i \in 1..n |-> 0], [i \in 1..n |-> 0], [i \in 1..n |-> 0],
                 [i \in 1..n |-> 0], [i \in 1..n |-> 0], o, [i \in 1..n |-> 0]) :
        o \in Vec(n, ObsBits) }

EpochInit ==
    /\ \E s \in Shapes(MaxNumSteps, MaxBatch), m \in 1..MaxMinibatches :
          /\ config = [NUM_STEPS |-> s[1], NUM_ENVS |-> s[2],
                       NUM_MINIBATCHES |-> m,
                       MINIBATCH_SIZE |-> minibatch_size(s[2], s[1], m)]
          /\ traj_batch \in [1..s[1] -> EpochCell(s[2])]
          /\ advantages \in [1..s[1] -> Vec(s[2], AdvValues)]
          /\ targets \in [1..s[1] -> Vec(s[2], AdvValues)]
    /\ pc = "epoch_input"
    /\ last_val = <<>>
    /\ permutation = <<>> /\ minibatches = <<>>
    /\ DriverIdle

EpochShuffle ==
    /\ pc = "epoch_input"
    /\ \/ /\ ~batch_size_ok(config)
          /\ pc' = "assertion_failed"
          /\ UNCHANGED <<permutation, minibatches>>
       \/ /\ batch_size_ok(config)
          /\ \E perm \in random_permutation(config.MINIBATCH_SIZE
                                            * config.NUM_MINIBATCHES) :
                /\ permutation' = perm
                /\ minibatches' = shuffle_minibatches(traj_batch, advantages,
                                                      targets, perm, config)
          /\ pc' = "epoch_shuffled"
    /\ UNCHANGED <<config, traj_batch, last_val, advantages, targets>>
    /\ UNCHANGED driver_vars

SpecEpoch == EpochInit /\ [][EpochShuffle]_vars

\* The sample at (t, env) of the batch, and the sample at slot j of minibatch m:
\* the values of all leaves there.
SampleIn(t, i) ==
    LET tree == BatchTree(traj_batch, advantages, targets)
    IN  [k \in DOMAIN tree |-> tree[k][t][i]]

SampleOut(m, j) == [k \in DOMAIN minibatches |-> minibatches[k][m][j]]

SlotsIn == (1..config.NUM_STEPS) \X (1..config.NUM_ENVS)
SlotsOut == (1..config.NUM_MINIBATCHES) \X (1..config.MINIBATCH_SIZE)

\* C2: with NUM_MINIBATCHES dividing NUM_ENVS*NUM_STEPS, the epoch's minibatches
\* are NUM_MINIBATCHES slices of MINIBATCH_SIZE samples each, in every leaf, and
\* they hold the samples of the batch, each as often as the batch does and with
\* its transition, advantage and target together: some one-to-one pairing of the
\* (t, env) positions with the minibatch slots matches every sample whole.
C2_MinibatchesPartitionBatch ==
    (pc = "epoch_shuffled"
     /\ (config.NUM_ENVS * config.NUM_STEPS) % config.NUM_MINIBATCHES = 0)
    => /\ \A k \in DOMAIN minibatches :
            /\ Len(minibatches[k]) = config.NUM_MINIBATCHES
            /\ \A m \in 1..config.NUM_MINIBATCHES :
                  Len(minibatches[k][m]) = config.MINIBATCH_SIZE
       /\ Cardinality(SlotsOut) = Cardinality(SlotsIn)
       /\ \A x \in { SampleIn(s[1], s[2]) : s \in SlotsIn }
                 \cup { SampleOut(s[1], s[2]) : s \in SlotsOut } :
            Cardinality({ s \in SlotsIn : SampleIn(s[1], s[2]) = x })
              = Cardinality({ s \in SlotsOut : SampleOut(s[1], s[2]) = x })

\* C2 witness: four samples that all differ, shuffled out of order into two
\* minibatches of two.
C2_Witness ==
    /\ pc = "epoch_shuffled"
    /\ config.NUM_MINIBATCHES = 2 /\ config.MINIBATCH_SIZE = 2
    /\ config.NUM_ENVS = 2
    /\ Cardinality({ SampleIn(s[1], s[2]) : s \in SlotsIn }) = 4
    /\ permutation[1] = 3 /\ permutation[3] = 0

(***************************************************************************)
(* The training driver: configuration.                                     *)
(***************************************************************************)
\* make_train, lines 126-131: the derived NUM_UPDATES and MINIBATCH_SIZE.
make_train(cfg) ==
    [k \in DOMAIN cfg \cup {"NUM_UPDATES", "MINIBATCH_SIZE"} |->
        IF k = "NUM_UPDATES"
        THEN (cfg.TOTAL_TIMESTEPS \div cfg.NUM_STEPS) \div cfg.NUM_ENVS
        ELSE IF k = "MINIBATCH_SIZE"
        THEN minibatch_size(cfg.NUM_ENVS, cfg.NUM_STEPS, cfg.NUM_MINIBATCHES)
        ELSE cfg[k]]

\* The configurations the model runs: every shape, minibatch count, epoch
\* count and update count within the bounds (at most MaxOptSteps optimizer
\* steps in all), TOTAL_TIMESTEPS a multiple of the batch or just short of the
\* next one, with and without annealing, jitted and not.
TrainInputs ==
    { x \in Shapes(MaxNumSteps, MaxBatch) \X (1..MaxMinibatches) \X (1..MaxEpochs)
            \X (1..MaxUpdates) \X {0, 1} \X BOOLEAN \X BOOLEAN :
        x[2] * x[3] * x[4] <= MaxOptSteps }

TrainConfigs ==
    { make_train(
        [NUM_STEPS |-> x[1][1], NUM_ENVS |-> x[1][2], NUM_MINIBATCHES |-> x[2],
         UPDATE_EPOCHS |-> x[3],
         TOTAL_TIMESTEPS |-> x[4] * x[1][1] * x[1][2]
                             + x[5] * (x[1][1] * x[1][2] - 1),
         LR |-> RI(3), ANNEAL_LR |-> x[6], GAMMA |-> Rat(1, 2),
         GAE_LAMBDA |-> Rat(1, 2), DISABLE_JIT |-> x[7]]) :
        x \in TrainInputs }

\* The lengths of the four scans.
num_updates(cfg) == cfg.NUM_UPDATES

\* The rollout scanned NUM_ENVS times, where NUM_STEPS is meant.
Mut_rollout_length_envs(cfg) == cfg.NUM_ENVS

rollout_length(cfg) == cfg.NUM_STEPS
update_epochs(cfg) == cfg.UPDATE_EPOCHS
num_minibatches(cfg) == cfg.NUM_MINIBATCHES

(***************************************************************************)
(* PRNG keys.  A key is the path of split indices that derived it from the *)
(* seed key <<>>; jax.random.split(key, n) returns its n children.         *)
(***************************************************************************)
split(key, n) == [c \in 1..n |-> Append(key, c - 1)]

Use(key, use) == [key |-> key, use |-> use]

\* train, lines 153-174 and 364-365: the keys of the set-up.
setup_keys(seed, num_envs) ==
    LET s1 == split(seed, 2)
        s2 == split(s1[1], 2)
        reset_rng == split(s2[2], num_envs)
        s3 == split(s2[1], 2)
    IN  [rng |-> s3[2],
         uses |-> << Use(seed, "split_carried"), Use(s1[2], "network_init"),
                     Use(s1[1], "split_carried"), Use(s2[2], "split_envs") >>
                  \o [i \in 1..num_envs |-> Use(reset_rng[i], "env_reset")]
                  \o << Use(s2[1], "split_carried") >>]

\* _env_step deriving the environments' keys from the key it sampled with.
Mut_step_keys_reuse(key, num_envs) ==
    LET s1 == split(key, 2)
        rng_step == split(s1[2], num_envs)
    IN  [rng |-> s1[1],
         uses |-> << Use(key, "split_carried"), Use(s1[2], "sample"),
                     Use(s1[2], "split_envs") >>
                  \o [i \in 1..num_envs |-> Use(rng_step[i], "env_step")]]

\* _env_step, lines 183-192: the keys of one step.
step_keys(key, num_envs) ==
    LET s1 == split(key, 2)
        s2 == split(s1[1], 2)
        rng_step == split(s2[2], num_envs)
    IN  [rng |-> s2[1],
         uses |-> << Use(key, "split_carried"), Use(s1[2], "sample"),
                     Use(s1[1], "split_carried"), Use(s2[2], "split_envs") >>
                  \o [i \in 1..num_envs |-> Use(rng_step[i], "env_step")]]

\* _update_epoch, lines 296 and 301: the keys of one epoch.
epoch_split(key) ==
    LET s1 == split(key, 2)
    IN  [rng |-> s1[1], perm_key |-> s1[2],
         uses |-> << Use(key, "split_carried") >>]

(***************************************************************************)
(* The external collaborators.  The network and its action distribution    *)
(* are functions of their arguments that the model does not interpret: a   *)
(* result identifies the arguments it was computed from.                   *)
(***************************************************************************)
ParamValues == {0, 1}
ObsValues == {0, 1}
ActionValues == {0, 1}

\* network.apply(params, obs), per environment: the value estimate.
value_of(params, o) == Cardinality(ObsValues) * params + o

\* pi.log_prob(action) of the distribution network.apply(params, obs) returns.
log_prob_of(params, o, a) ==
    -(1 + a + Cardinality(ActionValues) * (o + Cardinality(ObsValues) * params))

\* What env.step can return for one environment.
EnvResponses ==
    << [obs |-> 0, reward |-> 0, done |-> 0],
       [obs |-> 1, reward |-> 1, done |-> 0],
       [obs |-> 1, reward |-> 0, done |-> 1] >>

\* The joint returns of env.step the model draws from: in the k-th, environment
\* i answers with the response k + i - 1 (cyclically).
EnvReturns(num_envs) ==
    { [i \in 1..num_envs |-> EnvResponses[((k + i - 2) % Len(EnvResponses)) + 1]] :
        k \in 1..Len(EnvResponses) }

\* The joint observations env.reset can return.
ResetObs(num_envs) ==
    { [i \in 1..num_envs |-> (k + i) % Cardinality(ObsValues)] : k \in ObsValues }

\* The joint actions pi.sample can return.
SampledActions(num_envs) ==
    { [i \in 1..num_envs |-> (k + i) % Cardinality(ActionValues)] :
        k \in ActionValues }

(***************************************************************************)
(* _env_step, lines 179-198.                                               *)
(***************************************************************************)

\* The transition recording the observation the step returned.
Mut_recorded_obs_post_step(lastobs, obsv) == obsv

\* Line 195: the observation the transition records.
recorded_obs(lastobs, obsv) == lastobs

\* Lines 184-198 on the sampled action and the environment's return: the new
\* (env_state, last_obs) and the transition.
_env_step(params, envstate, lastobs, action, ret) ==
    LET n == Len(lastobs)
        value == [i \in 1..n |-> value_of(params, lastobs[i])]
        log_prob == [i \in 1..n |-> log_prob_of(params, lastobs[i], action[i])]
        obsv == [i \in 1..n |-> ret[i].obs]
        reward == [i \in 1..n |-> ret[i].reward]
        done == [i \in 1..n |-> ret[i].done]
        new_env_state == [t |-> envstate.t + 1]
        info == [i \in 1..n |-> new_env_state.t]
    IN  [env_state |-> new_env_state,
         last_obs |-> obsv,
         transition |-> Transition(done, action, value, reward, log_prob,
                                   recorded_obs(lastobs, obsv), info)]

(***************************************************************************)
(* _update_minbatch, lines 236-293.                                        *)
(***************************************************************************)
\* Line 238: the advantages of a minibatch, normalized:
\* (gae - gae.mean()) / (gae.std() + 1e-8), kept by sample as its exact parts,
\* the centered advantage and the variance of the minibatch.
Mean[xs \in Seq(Rationals)] == RMul(SumSeq(xs), Rat(1, Len(xs)))

Centered[xs \in Seq(Rationals), mean \in Rationals] ==
    [k \in 1..Len(xs) |-> RSub(xs[k], mean)]

Squares[xs \in Seq(Rationals)] == [k \in 1..Len(xs) |-> RMul(xs[k], xs[k])]

Scaled[centered \in Seq(Rationals), variance \in Rationals] ==
    [k \in 1..Len(centered) |->
        [centered |-> centered[k], variance |-> variance]]

WithVariance[centered \in Seq(Rationals)] ==
    Scaled[centered, Mean[Squares[centered]]]

normalize(advs) == WithVariance[Centered[advs, Mean[advs]]]

\* Lines 256-266 for one sample: the policy loss -min(ratio * gae,
\* clip(ratio, 1 - CLIP_EPS, 1 + CLIP_EPS) * gae) as -scale * gae, where
\* ratio = exp(log_ratio).  The log-probabilities of the model are integers
\* and 0 < CLIP_EPS < 1 - 1/e, so a ratio other than 1 lies outside the clip
\* range: the scale is the ratio itself, 1 + CLIP_EPS or 1 - CLIP_EPS.
loss_actor(log_ratio, gae) ==
    LET positive == gae.centered.n > 0
        scale == IF log_ratio = 0 THEN [exp |-> 0]
                 ELSE IF log_ratio > 0
                 THEN (IF positive THEN [clip |-> "1+CLIP_EPS"]
                                   ELSE [exp |-> log_ratio])
                 ELSE (IF positive THEN [exp |-> log_ratio]
                                   ELSE [clip |-> "1-CLIP_EPS"])
    IN  [minus |-> scale, times |-> gae]

\* Lines 241-243 and 256 for one sample: log_prob - traj_batch.log_prob.
log_ratio(params, obs, action, old_log_prob) ==
    log_prob_of(params, obs, action) - old_log_prob

\* A normalized advantage, and what _loss_fn computes of one sample.
NormalizedAdvantages == [centered : Rationals, variance : Rationals]

Sample[lr \in Int, gae \in NormalizedAdvantages] ==
    [log_ratio |-> lr, gae |-> gae, loss_actor |-> loss_actor(lr, gae)]

\* jax.vmap of _loss_fn (lines 277-280) over the samples of a minibatch, on
\* the advantages normalized once for the minibatch.
Samples[lrs \in Seq(Int), gaes \in Seq(NormalizedAdvantages)] ==
    [j \in 1..Len(lrs) |-> Sample[lrs[j], gaes[j]]]

loss_fn(params, mb) ==
    Samples[[j \in 1..Len(mb.obs) |->
                log_ratio(params, mb.obs[j], mb.action[j], mb.log_prob[j])],
            normalize(mb.advantages)]

\* dormancy_rate and threshold_grad_second_moment of a pass: functions of the
\* pass's activations and per-sample gradients, named by the pass.
dormancy_rate(pass) == [dormancy_of |-> pass]
threshold_grad_second_moment(pass) == [threshold_of |-> pass]

\* linear_schedule dividing the count by NUM_MINIBATCHES alone.
Mut_linear_schedule_per_minibatch(count, cfg) ==
    RMul(cfg.LR,
         RSub(RI(1), Rat(count \div cfg.NUM_MINIBATCHES, cfg.NUM_UPDATES)))

\* Lines 140-146.
linear_schedule(count, cfg) ==
    LET frac == RSub(RI(1),
                     Rat(count \div (cfg.NUM_MINIBATCHES * cfg.UPDATE_EPOCHS),
                         cfg.NUM_UPDATES))
    IN  RMul(cfg.LR, frac)

\* Line 161 and the optimizer's use of it: the learning rate of the optimizer
\* step taken at schedule count `count`.
learning_rate(count, cfg) ==
    IF cfg.ANNEAL_LR THEN linear_schedule(count, cfg) ELSE cfg.LR

\* train_state.apply_gradients: the optimizer is a black box that returns some
\* parameters; the step and the schedule count advance by one.
apply_gradients(ts, new_params) ==
    [params |-> new_params, step |-> ts.step + 1, opt_count |-> ts.opt_count + 1]

\* A scan keeping the output of its last iteration alone.
Mut_scan_outputs_last_only(outs) == << outs[Len(outs)] >>

\* What the scan of _update_minbatch returns for an epoch: the outputs of all
\* its iterations, stacked.
scan_outputs(outs) == outs

(***************************************************************************)
(* The training driver: main's jitted call of train, and the scans of      *)
(* _update_step, _env_step, _update_epoch and _update_minbatch, one action *)
(* per iteration.                                                          *)
(***************************************************************************)
Init ==
    /\ config \in TrainConfigs
    /\ pc = "start"
    /\ rng = <<>>
    /\ train_state = Idle /\ env_state = Idle /\ last_obs = Idle
    /\ traj_batch = <<>> /\ last_val = <<>>
    /\ advantages = <<>> /\ targets = <<>>
    /\ permutation = <<>> /\ minibatches = <<>>
    /\ update_i = 0 /\ epoch_i = 0 /\ mb_i = 0
    /\ total_loss = <<>> /\ loss_info = <<>> /\ metric = <<>>
    /\ key_log = <<>> /\ phase_log = <<>> /\ env_ret = Idle /\ acted = <<>>
    /\ lr_used = <<>> /\ pass_out = <<>>

\* main, lines 387-389, without DISABLE_JIT: jax.jit traces train before it
\* runs anything, and the trace evaluates the assertion of _update_epoch.
JitTrace ==
    /\ pc = "start"
    /\ ~config.DISABLE_JIT
    /\ pc' = IF batch_size_ok(config) THEN "traced" ELSE "failed"
    /\ UNCHANGED <<config, train_state, env_state, last_obs, rng, traj_batch,
                   last_val, advantages, targets, permutation, minibatches,
                   update_i, epoch_i, mb_i, total_loss, loss_info, metric,
                   key_log, phase_log, env_ret, acted, lr_used, pass_out>>

\* train, lines 149-175 and 364-365: the network, the optimizer, the reset.
TrainSetup ==
    /\ \/ pc = "start" /\ config.DISABLE_JIT
       \/ pc = "traced"
    /\ LET keys == setup_keys(rng, config.NUM_ENVS)
       IN  /\ rng' = keys.rng
           /\ key_log' = keys.uses
    /\ train_state' = [params |-> 0, step |-> 0, opt_count |-> 0]
    /\ env_state' = [t |-> 0]
    /\ \E obsv \in ResetObs(config.NUM_ENVS) :
          /\ last_obs' = obsv
          /\ env_ret' = [i \in 1..config.NUM_ENVS |->
                            [obs |-> obsv[i], reward |-> 0, done |-> 0]]
    /\ pc' = "rollout"
    /\ UNCHANGED <<config, traj_batch, last_val, advantages, targets,
                   permutation, minibatches, update_i, epoch_i, mb_i,
                   total_loss, loss_info, metric, phase_log, acted, lr_used,
                   pass_out>>

\* One iteration of the scan of _env_step.
EnvStep ==
    /\ pc = "rollout"
    /\ \E action \in SampledActions(config.NUM_ENVS),
          ret \in EnvReturns(config.NUM_ENVS) :
          LET keys == step_keys(rng, config.NUM_ENVS)
              r == _env_step(train_state.params, env_state, last_obs, action, ret)
          IN  /\ traj_batch' = Append(traj_batch, r.transition)
              /\ env_state' = r.env_state
              /\ last_obs' = r.last_obs
              /\ rng' = keys.rng
              /\ key_log' = key_log \o keys.uses
              /\ env_ret' = ret
              /\ acted' = Append(acted, [params |-> train_state.params,
                                         step |-> train_state.step,
                                         obsv |-> r.last_obs])
    /\ phase_log' = (IF traj_batch = <<>> THEN <<>> ELSE phase_log)
                    \o <<"env_step">>
    /\ pc' = IF Len(traj_batch) + 1 = rollout_length(config)
             THEN "gae" ELSE "rollout"
    /\ UNCHANGED <<config, train_state, last_val, advantages, targets,
                   permutation, minibatches, update_i, epoch_i, mb_i,
                   total_loss, loss_info, metric, lr_used, pass_out>>

\* _update_step, lines 204-232 and 321: the bootstrap value and the advantages.
CalculateGae ==
    /\ pc = "gae"
    /\ last_val' = [i \in 1..Len(last_obs) |->
                       value_of(train_state.params, last_obs[i])]
    /\ LET r == _calculate_gae(traj_batch, last_val', config)
       IN  advantages' = r[1] /\ targets' = r[2]
    /\ epoch_i' = 0
    /\ loss_info' = <<>>
    /\ phase_log' = Append(phase_log, "gae")
    /\ pc' = "epoch"
    /\ UNCHANGED <<config, train_state, env_state, last_obs, rng, traj_batch,
                   permutation, minibatches, update_i, mb_i, total_loss,
                   metric, key_log, env_ret, acted, lr_used, pass_out>>

\* _update_epoch, lines 295-314: the key, the assertion, the shuffle.
UpdateEpoch ==
    /\ pc = "epoch"
    /\ LET keys == epoch_split(rng)
       IN  /\ rng' = keys.rng
           /\ \/ /\ ~batch_size_ok(config)
                 /\ key_log' = key_log \o keys.uses
                 /\ pc' = "failed"
                 /\ UNCHANGED <<permutation, minibatches, phase_log>>
              \/ /\ batch_size_ok(config)
                 /\ key_log' = key_log \o keys.uses
                               \o << Use(keys.perm_key, "permutation") >>
                 /\ \E perm \in random_permutation(config.MINIBATCH_SIZE
                                                  * config.NUM_MINIBATCHES) :
                       /\ permutation' = perm
                       /\ minibatches' = shuffle_minibatches(
                              traj_batch, advantages, targets, perm, config)
                 /\ phase_log' = Append(phase_log, "epoch")
                 /\ pc' = "minibatch"
    /\ mb_i' = 0
    /\ total_loss' = <<>>
    /\ pass_out' = <<>>
    /\ UNCHANGED <<config, train_state, env_state, last_obs, traj_batch,
                   last_val, advantages, targets, update_i, epoch_i, loss_info,
                   metric, env_ret, acted, lr_used>>

\* One iteration of the scan of _update_minbatch, lines 236-293; after the last
\* one the epoch returns (lines 315-319) and its locals are gone.
UpdateMinibatch ==
    /\ pc = "minibatch"
    /\ LET m == mb_i + 1
           mb == [k \in DOMAIN minibatches |-> minibatches[k][m]]
           pass == [update |-> update_i + 1, epoch |-> epoch_i + 1,
                    minibatch |-> m]
           out == << [total_loss_of |-> pass],
                     << [value_loss_of |-> pass], [loss_actor_of |-> pass],
                        [entropy_of |-> pass], dormancy_rate(pass),
                        threshold_grad_second_moment(pass) >> >>
           outs == Append(total_loss, out)
       IN  /\ pass_out' = << [pass |-> pass,
                              params |-> train_state.params,
                              step |-> train_state.step,
                              samples |-> loss_fn(train_state.params, mb)] >>
           /\ lr_used' = << [pass |-> pass, count |-> train_state.opt_count,
                             lr |-> learning_rate(train_state.opt_count, config)] >>
           /\ \E new_params \in ParamValues :
                 train_state' = apply_gradients(train_state, new_params)
           /\ IF m = num_minibatches(config)
              THEN /\ loss_info' = Append(loss_info, scan_outputs(outs))
                   /\ total_loss' = <<>>
                   /\ permutation' = <<>> /\ minibatches' = <<>>
                   /\ mb_i' = 0
                   /\ epoch_i' = epoch_i + 1
                   /\ pc' = IF epoch_i + 1 = update_epochs(config)
                            THEN "metric" ELSE "epoch"
              ELSE /\ total_loss' = outs
                   /\ mb_i' = m
                   /\ UNCHANGED <<loss_info, permutation, minibatches,
                                  epoch_i, pc>>
    /\ phase_log' = Append(phase_log, "minibatch")
    /\ UNCHANGED <<config, env_state, last_obs, rng, traj_batch, last_val,
                   advantages, targets, update_i, metric, key_log, env_ret,
                   acted>>

\* _update_step, lines 326-362: the metric and the next runner_state; after the
\* last update step train returns (line 369).
FinishUpdate ==
    /\ pc = "metric"
    /\ metric' = Append(metric,
          [info |-> [t \in 1..Len(traj_batch) |-> traj_batch[t].info],
           dormancy |->
              [e \in 1..Len(loss_info) |->
                  [m \in 1..Len(loss_info[e]) |-> loss_info[e][m][2][4]]],
           threshold_grad_second_moment |->
              [e \in 1..Len(loss_info) |->
                  [m \in 1..Len(loss_info[e]) |-> loss_info[e][m][2][5]]]])
    /\ update_i' = update_i + 1
    /\ pc' = IF update_i + 1 = num_updates(config) THEN "done" ELSE "rollout"
    /\ phase_log' = Append(phase_log, "metric")
    /\ traj_batch' = <<>> /\ last_val' = <<>>
    /\ advantages' = <<>> /\ targets' = <<>>
    /\ permutation' = <<>> /\ minibatches' = <<>>
    /\ total_loss' = <<>> /\ loss_info' = <<>>
    /\ acted' = <<>> /\ pass_out' = <<>>
    /\ epoch_i' = 0 /\ mb_i' = 0
    /\ UNCHANGED <<config, train_state, env_state, last_obs, rng, key_log,
                   env_ret, lr_used>>

Next ==
    \/ JitTrace
    \/ TrainSetup
    \/ EnvStep
    \/ CalculateGae
    \/ UpdateEpoch
    \/ UpdateMinibatch
    \/ FinishUpdate

Spec == Init /\ [][Next]_vars

\* The program is one thread of control that runs each step it reaches.  The
\* fair runs are those of the configurations of at most MaxFairBatch samples
\* per batch.
FairInit == Init /\ config.NUM_STEPS * config.NUM_ENVS <= MaxFairBatch

FairSpec == FairInit /\ [][Next]_vars /\ WF_vars(Next)

(***************************************************************************)
(* Properties of the training driver.                                      *)
(***************************************************************************)
\* The configuration passes the assertion of _update_epoch.
Valid ==
    config.MINIBATCH_SIZE * config.NUM_MINIBATCHES
        = config.NUM_STEPS * config.NUM_ENVS
Executing == key_log # <<>>
OptStepsPerUpdate == config.NUM_MINIBATCHES * config.UPDATE_EPOCHS

\* C3 as stated: a configuration whose batch is not NUM_MINIBATCHES *
\* MINIBATCH_SIZE fails on the assertion before any environment step and any
\* parameter update has been executed.
C3_FailsBeforeTraining ==
    pc = "failed" =>
        \/ ~Executing
        \/ (env_state.t = 0 /\ train_state.step = 0)

\* What holds of the failure: traced under jit, the run fails before anything
\* is executed; run eagerly, it fails after the rollout and the advantages but
\* before any parameter update; either way it never returns.
FailureSupport ==
    /\ (pc = "failed" /\ ~config.DISABLE_JIT) => ~Executing
    /\ (pc = "failed" /\ config.DISABLE_JIT) =>
          (env_state.t = config.NUM_STEPS /\ train_state.step = 0)
    /\ pc = "failed" => ~Valid
    /\ pc = "done" => Valid
    /\ Valid <=> batch_size_ok(config)

\* The rate of the last optimizer step, by the update step it was taken in.
LrState ==
    /\ (Executing /\ pc = "rollout" /\ traj_batch = <<>>) =>
          train_state.opt_count = update_i * OptStepsPerUpdate
    /\ (config.ANNEAL_LR /\ lr_used # <<>>) =>
          LET r == lr_used[1]
              u == r.pass.update - 1
          IN  /\ r.count = u * OptStepsPerUpdate
                           + (r.pass.epoch - 1) * config.NUM_MINIBATCHES
                           + (r.pass.minibatch - 1)
              /\ r.lr = RMul(config.LR,
                             Rat(config.NUM_UPDATES - u, config.NUM_UPDATES))
              /\ (u = 0 => r.lr = config.LR)
              /\ (u = config.NUM_UPDATES - 1 =>
                     r.lr = RMul(config.LR, Rat(1, config.NUM_UPDATES)))
              /\ RLe(RMul(config.LR, Rat(1, config.NUM_UPDATES)), r.lr)
              /\ RLt(RI(0), r.lr)

LrStep ==
    (config.ANNEAL_LR /\ lr_used # <<>> /\ lr_used' # <<>>) =>
        RLe(lr_used'[1].lr, lr_used[1].lr)

\* C4: with ANNEAL_LR the optimizer's count at the start of update step u is
\* u * NUM_MINIBATCHES * UPDATE_EPOCHS, every optimizer step of update step u
\* uses LR * (1 - u / NUM_UPDATES): LR in update step 0, LR / NUM_UPDATES in the
\* last one, never less and never negative; and the rate never increases from
\* one optimizer step to the next.
C4_AnnealedRate == []LrState /\ [][LrStep]_vars

\* C4 witness: an annealed run of two update steps of two optimizer steps each
\* has finished; its last optimizer step was the second of update step 2.
C4_Witness ==
    /\ pc = "done"
    /\ config.ANNEAL_LR
    /\ config.NUM_UPDATES = 2
    /\ OptStepsPerUpdate = 2
    /\ lr_used # <<>>
    /\ lr_used[1].count = 3
    /\ lr_used[1].lr = RMul(config.LR, Rat(1, 2))

Repeat(n, s) == [k \in 1..(n * Len(s)) |-> s[((k - 1) % Len(s)) + 1]]

\* The operations of one update step, in order.
ExpectedPhases ==
    Repeat(config.NUM_STEPS, <<"env_step">>)
    \o <<"gae">>
    \o Repeat(config.UPDATE_EPOCHS,
              <<"epoch">> \o Repeat(config.NUM_MINIBATCHES, <<"minibatch">>))
    \o <<"metric">>

IsPrefix(s, t) == Len(s) <= Len(t) /\ \A k \in 1..Len(s) : s[k] = t[k]

PhasesState ==
    Valid =>
        /\ IsPrefix(phase_log, ExpectedPhases)
        /\ Len(metric) = update_i
        /\ update_i <= config.NUM_UPDATES
        /\ pc # "failed"
        /\ pc = "done" =>
              /\ update_i = config.NUM_UPDATES
              /\ phase_log = ExpectedPhases
              /\ env_state.t = config.NUM_UPDATES * config.NUM_STEPS
              /\ train_state.step = config.NUM_UPDATES * OptStepsPerUpdate
        /\ (pc = "rollout" /\ update_i > 0 /\ traj_batch = <<>>) =>
              phase_log = ExpectedPhases

ValidConfigs == { c \in TrainConfigs : batch_size_ok(c) }

\* C5: a run of a valid configuration ends, and when it has ended it has made
\* NUM_UPDATES update steps, each NUM_STEPS environment steps, then the
\* advantages, then UPDATE_EPOCHS epochs of NUM_MINIBATCHES parameter updates,
\* in that order, whatever the environment returned and the optimizer did, with
\* one metric per update step.
C5_RunsToCompletion ==
    []PhasesState /\ ((config \in ValidConfigs) ~> (pc = "done"))

\* C5 witness: a run of two update steps has ended whose last environment step
\* returned done = 1.
C5_Witness ==
    /\ pc = "done"
    /\ config.NUM_UPDATES = 2
    /\ config.NUM_STEPS = 2
    /\ config.UPDATE_EPOCHS = 2
    /\ Len(metric) = 2
    /\ env_ret[1].done = 1

FirstPass(r) == r.pass.epoch = 1 /\ r.pass.minibatch = 1

FirstPassOnPolicy ==
    pass_out # <<>> =>
        LET r == pass_out[1]
        IN  /\ Len(acted) = config.NUM_STEPS
            /\ FirstPass(r) =>
                  /\ \A t \in 1..Len(acted) :
                        acted[t].params = r.params /\ acted[t].step = r.step
                  /\ \A j \in 1..Len(r.samples) :
                        /\ r.samples[j].log_ratio = 0
                        /\ r.samples[j].loss_actor
                             = [minus |-> [exp |-> 0], times |-> r.samples[j].gae]

\* C7 as stated: the first minibatch of the first epoch is evaluated with the
\* parameters that acted (ratio 1, policy loss minus the advantage), and in any
\* later minibatch or epoch the parameters differ from the acting ones.
C7_AsStated ==
    /\ FirstPassOnPolicy
    /\ pass_out # <<>> =>
          (~FirstPass(pass_out[1]) =>
              \A t \in 1..Len(acted) : acted[t].params # pass_out[1].params)

\* C7 amended: the first minibatch of the first epoch is evaluated with the
\* parameters that acted in every transition of the rollout, with no optimizer
\* step in between, so every sample's ratio is 1 and its policy loss is minus
\* its normalized advantage; any later minibatch or epoch is evaluated after one
\* or more optimizer steps since the rollout (as many as minibatch passes came
\* before it), whose parameters may or may not differ from the acting ones.
C7_FirstMinibatchOnPolicy ==
    /\ FirstPassOnPolicy
    /\ pass_out # <<>> =>
          LET r == pass_out[1]
          IN  \A t \in 1..Len(acted) :
                 r.step - acted[t].step
                   = (r.pass.epoch - 1) * config.NUM_MINIBATCHES
                     + (r.pass.minibatch - 1)

\* C7 witness: the first minibatch of the second update step, evaluated with
\* parameters other than the initial ones on samples whose advantages differ.
C7_Witness ==
    /\ pass_out # <<>>
    /\ FirstPass(pass_out[1])
    /\ pass_out[1].pass.update = 2
    /\ pass_out[1].params = 1
    /\ Len(pass_out[1].samples) = 2
    /\ pass_out[1].samples[1].gae.centered # RI(0)

KeyUses(use) == { a \in 1..Len(key_log) : key_log[a].use = use }

EpochsStarted ==
    update_i * config.UPDATE_EPOCHS + epoch_i + (IF pc = "minibatch" THEN 1 ELSE 0)

KeysState ==
    Executing =>
        /\ Cardinality({ key_log[a].key : a \in 1..Len(key_log) }) = Len(key_log)
        /\ \A a \in 1..Len(key_log) : key_log[a].key # rng
        /\ Cardinality(KeyUses("network_init")) = 1
        /\ Cardinality(KeyUses("env_reset")) = config.NUM_ENVS
        /\ Cardinality(KeyUses("sample")) = env_state.t
        /\ Cardinality(KeyUses("split_envs")) = 1 + env_state.t
        /\ Cardinality(KeyUses("env_step")) = config.NUM_ENVS * env_state.t
        /\ pc \in {"gae", "epoch", "minibatch", "metric"} =>
              env_state.t = (update_i + 1) * config.NUM_STEPS
        /\ Valid => Cardinality(KeyUses("permutation")) = EpochsStarted

KeysStep ==
    \A a \in 1..Len(key_log') :
        (a > Len(key_log) /\ key_log'[a].key = rng) =>
            key_log'[a].use = "split_carried"

\* C8: no key is used twice, as a split or as a consumption; the key carried in
\* the runner and update state is unused and its one use is to be split; every
\* environment step draws one key for sampling and one for the environment
\* (split into one per environment), so a rollout draws 2 * NUM_STEPS; and
\* every epoch consumes one key of its own for its permutation.
C8_KeysUsedOnce == []KeysState /\ [][KeysStep]_vars

\* C8 witness: a run of two update steps of two environment steps on two
\* environments and two epochs each has ended.
C8_Witness ==
    /\ pc = "done"
    /\ config.NUM_UPDATES = 2
    /\ config.NUM_STEPS = 2
    /\ config.NUM_ENVS = 2
    /\ config.UPDATE_EPOCHS = 2
    /\ Cardinality(KeyUses("permutation")) = 4
    /\ Cardinality(KeyUses("sample")) = 4

Obs(ret) == [i \in 1..Len(ret) |-> ret[i].obs]

RolloutState ==
    Executing =>
        /\ last_obs = Obs(env_ret)
        /\ Len(acted) = Len(traj_batch)
        /\ \A t \in 1..Len(traj_batch), i \in 1..config.NUM_ENVS :
              /\ traj_batch[t].value[i]
                   = value_of(acted[t].params, traj_batch[t].obs[i])
              /\ traj_batch[t].log_prob[i]
                   = log_prob_of(acted[t].params, traj_batch[t].obs[i],
                                 traj_batch[t].action[i])
        /\ \A t \in 1..(Len(traj_batch) - 1) :
              traj_batch[t + 1].obs = acted[t].obsv
        /\ traj_batch # <<>> =>
              LET last == traj_batch[Len(traj_batch)]
              IN  /\ last.reward = [i \in 1..Len(env_ret) |-> env_ret[i].reward]
                  /\ last.done = [i \in 1..Len(env_ret) |-> env_ret[i].done]
                  /\ acted[Len(acted)].obsv = last_obs
        /\ pc \in {"epoch", "minibatch", "metric"} =>
              /\ last_val = [i \in 1..config.NUM_ENVS |->
                               value_of(acted[1].params, env_ret[i].obs)]
              /\ \A t \in 1..Len(acted) : acted[t].params = acted[1].params

RolloutStep ==
    Len(traj_batch') = Len(traj_batch) + 1 =>
        /\ traj_batch'[Len(traj_batch')].obs = last_obs
        /\ traj_batch'[Len(traj_batch')].obs = Obs(env_ret)
        /\ last_obs' = Obs(env_ret')
        /\ acted'[Len(acted')].params = train_state.params

\* C9: the transition of a step holds the observation the policy saw before the
\* step, the value and log-probability computed on it, and the reward and done
\* the step returned; the runner's last observation is the one the step
\* returned, so the next recorded observation is that one, within a rollout and
\* from one update step to the next; and the bootstrap value is computed on the
\* last returned observation with the parameters of the rollout.
C9_PreStepRecording == []RolloutState /\ [][RolloutStep]_vars

\* C9 witness: in the second update step, two steps whose recorded observations
\* differ from each other and from the observation returned last.
C9_Witness ==
    /\ pc = "epoch"
    /\ update_i = 1
    /\ Len(traj_batch) = 2
    /\ traj_batch[1].obs # traj_batch[2].obs
    /\ traj_batch[2].obs # last_obs
    /\ train_state.params = 1

PassOf(u, e, m) == [update |-> u, epoch |-> e, minibatch |-> m]

\* C10 as stated: the metric of an update step holds one dormancy record and
\* one threshold record per epoch, those of the epoch's last minibatch pass.
C10_AsStated ==
    \A u \in 1..Len(metric) :
        /\ Len(metric[u].dormancy) = config.UPDATE_EPOCHS
        /\ Len(metric[u].threshold_grad_second_moment) = config.UPDATE_EPOCHS
        /\ \A e \in 1..config.UPDATE_EPOCHS :
              /\ metric[u].dormancy[e]
                   = << dormancy_rate(PassOf(u, e, config.NUM_MINIBATCHES)) >>
              /\ metric[u].threshold_grad_second_moment[e]
                   = << threshold_grad_second_moment(
                           PassOf(u, e, config.NUM_MINIBATCHES)) >>

\* C10 amended: the metric of an update step holds the dormancy record and the
\* threshold record of every minibatch pass of every epoch, UPDATE_EPOCHS *
\* NUM_MINIBATCHES of each, in the order of the passes; none is left out.
C10_DiagnosticsOfEveryPass ==
    \A u \in 1..Len(metric) :
        /\ metric[u].dormancy
             = [e \in 1..config.UPDATE_EPOCHS |->
                  [m \in 1..config.NUM_MINIBATCHES |->
                     dormancy_rate(PassOf(u, e, m))]]
        /\ metric[u].threshold_grad_second_moment
             = [e \in 1..config.UPDATE_EPOCHS |->
                  [m \in 1..config.NUM_MINIBATCHES |->
                     threshold_grad_second_moment(PassOf(u, e, m))]]

\* C10 witness: the metric of an update step of two epochs of two minibatches.
C10_Witness ==
    /\ Len(metric) >= 1
    /\ config.UPDATE_EPOCHS = 2
    /\ config.NUM_MINIBATCHES = 2
    /\ Len(metric[1].dormancy[2]) = 2

====
